---------------------------- MODULE Spec2Model ----------------------------
(***************************************************************************)
(* Model of uni_equation_solver (src/main.cpp): the expression parser /    *)
(* evaluator `formula` and the six root-finding methods that call it.      *)
(*                                                                         *)
(* Numbers.  A C++ double is modelled by a record                          *)
(*     [k |-> "fin", v |-> n]   the finite value n * h   (h = 0.01)        *)
(*     [k |-> "inf", v |-> +1 / -1]                                        *)
(*     [k |-> "nan", v |-> 0]   a NaN other than the all-ones pattern      *)
(*     [k |-> "nan", v |-> 1]   the NaN with bit pattern 0xFFFFFFFFFFFFFFFF*)
(* Arithmetic rounds to the grid of multiples of h, overflows to an        *)
(* infinity beyond MaxMagnitude grid units, and follows the IEEE rules for *)
(* NaN and the infinities; a NaN operand is handed on (first operand       *)
(* first).  There is a single zero.  Library functions (sin, exp, ...) are *)
(* series rounded to the grid; their poles and domain errors are exact.    *)
(*                                                                         *)
(* Text.  A std::string is a sequence of one-character strings, indexed    *)
(* from 1; a `const char*` into a text of length n is an index 1..n+1,     *)
(* n+1 being the end (where the string's terminating '\0' is read).        *)
(***************************************************************************)
EXTENDS Integers, Sequences, FiniteSets, TLC

\* const double h = 0.01: one grid unit.
h == 1
\* grid units per 1.0
Scale == 100 * h
\* largest finite magnitude of the number model, in grid units
MaxMagnitude == 20000000
\* largest product the arithmetic forms before rounding
MaxProduct == Scale * MaxMagnitude

Fin(n) == [k |-> "fin", v |-> n]
NAN == [k |-> "nan", v |-> 0]
SENTINEL == [k |-> "nan", v |-> 1]
INF(s) == [k |-> "inf", v |-> s]
Zero == Fin(0)
One == Fin(Scale)

IAbs(n) == IF n < 0 THEN -n ELSE n
ISgn(n) == IF n < 0 THEN -1 ELSE IF n > 0 THEN 1 ELSE 0
\* n / d rounded to the nearest integer (halves away from zero), d > 0
RoundDiv(n, d) ==
    LET a == IAbs(n)
        q == a \div d
        r == a % d
        m == IF 2 * r >= d THEN q + 1 ELSE q
    IN ISgn(n) * m
\* n / d rounded towards zero, d > 0
TruncDiv(n, d) == ISgn(n) * (IAbs(n) \div d)

isnan(a) == a.k = "nan"
isinf(a) == a.k = "inf"
isfin(a) == a.k = "fin"
\* sign of a non-NaN value: -1, 0, +1
Sgn(a) == IF isinf(a) THEN a.v ELSE ISgn(a.v)
\* the finite value n, or the infinity it overflows to
Norm(n) == IF IAbs(n) > MaxMagnitude THEN INF(ISgn(n)) ELSE Fin(n)
\* the NaN an operation hands on when an operand is a NaN
PropNaN(a, b) == IF isnan(a) THEN a ELSE b

\* comparisons of doubles: every comparison with a NaN but != is false
DEq(a, b) == ~isnan(a) /\ ~isnan(b) /\ a = b
DNe(a, b) == ~DEq(a, b)
DLt(a, b) ==
    /\ ~isnan(a) /\ ~isnan(b)
    /\ IF isinf(a) THEN a.v = -1 /\ b # a
       ELSE IF isinf(b) THEN b.v = 1
       ELSE a.v < b.v
DLe(a, b) == DLt(a, b) \/ DEq(a, b)

DNeg(a) ==
    IF isnan(a) THEN NAN
    ELSE IF isinf(a) THEN INF(-a.v)
    ELSE Fin(-a.v)
DAdd(a, b) ==
    IF isnan(a) \/ isnan(b) THEN PropNaN(a, b)
    ELSE IF isinf(a) /\ isinf(b) THEN (IF a.v = b.v THEN a ELSE NAN)
    ELSE IF isinf(a) THEN a
    ELSE IF isinf(b) THEN b
    ELSE Norm(a.v + b.v)
DSub(a, b) == IF isnan(a) \/ isnan(b) THEN PropNaN(a, b) ELSE DAdd(a, DNeg(b))
DMul(a, b) ==
    IF isnan(a) \/ isnan(b) THEN PropNaN(a, b)
    ELSE IF isinf(a) \/ isinf(b)
         THEN (IF Sgn(a) = 0 \/ Sgn(b) = 0 THEN NAN ELSE INF(Sgn(a) * Sgn(b)))
    ELSE IF a.v = 0 \/ b.v = 0 THEN Zero
    ELSE IF IAbs(a.v) > MaxProduct \div IAbs(b.v) THEN INF(Sgn(a) * Sgn(b))
    ELSE Norm(RoundDiv(a.v * b.v, Scale))
DDiv(a, b) ==
    IF isnan(a) \/ isnan(b) THEN PropNaN(a, b)
    ELSE IF isinf(a) /\ isinf(b) THEN NAN
    ELSE IF isinf(a) THEN INF(a.v * (IF Sgn(b) < 0 THEN -1 ELSE 1))
    ELSE IF isinf(b) THEN Zero
    ELSE IF b.v = 0 THEN (IF a.v = 0 THEN NAN ELSE INF(ISgn(a.v)))
    ELSE Norm(ISgn(b.v) * RoundDiv(a.v * Scale, IAbs(b.v)))
\* std::abs / fabs
DAbs(a) ==
    IF isnan(a) THEN (IF a = SENTINEL THEN NAN ELSE a)
    ELSE IF isinf(a) THEN INF(1)
    ELSE Fin(IAbs(a.v))
\* the double of the integer n
DInt(n) == Fin(n * Scale)
\* std::copysign(a, b) for a non-NaN b
copysign(a, b) ==
    IF isnan(a) THEN a
    ELSE IF Sgn(b) < 0 THEN (IF Sgn(a) > 0 THEN DNeg(a) ELSE a)
    ELSE (IF Sgn(a) < 0 THEN DNeg(a) ELSE a)
\* trunc
DTrunc(a) == IF isfin(a) THEN Fin(TruncDiv(a.v, Scale) * Scale) ELSE a
\* fmod
DFmod(a, b) ==
    IF isnan(a) \/ isnan(b) THEN PropNaN(a, b)
    ELSE IF isinf(a) \/ Sgn(b) = 0 THEN NAN
    ELSE IF isinf(b) THEN a
    ELSE Fin(ISgn(a.v) * (IAbs(a.v) % IAbs(b.v)))
\* largest r in lo..hi with r * r <= n   (lo * lo <= n)
RECURSIVE ISqrtIn(_, _, _)
ISqrtIn(n, lo, hi) ==
    IF lo >= hi THEN lo
    ELSE LET mid == (lo + hi + 1) \div 2
         IN IF mid * mid <= n THEN ISqrtIn(n, mid, hi) ELSE ISqrtIn(n, lo, mid - 1)
\* largest r in lo..hi with r * r * r <= n
RECURSIVE ICbrtIn(_, _, _)
ICbrtIn(n, lo, hi) ==
    IF lo >= hi THEN lo
    ELSE LET mid == (lo + hi + 1) \div 2
         IN IF mid * mid * mid <= n THEN ICbrtIn(n, mid, hi) ELSE ICbrtIn(n, lo, mid - 1)
\* of the neighbours r and r + 1 of the root of n, the nearer
NearerRoot(n, r) == Fin(IF (r + 1) * (r + 1) - n < n - r * r THEN r + 1 ELSE r)
\* sqrt
DSqrt(a) ==
    IF isnan(a) THEN a
    ELSE IF Sgn(a) < 0 THEN NAN
    ELSE IF isinf(a) THEN a
    ELSE NearerRoot(a.v * Scale, ISqrtIn(a.v * Scale, 0, 46340))
\* cbrt
DCbrt(a) ==
    IF ~isfin(a) THEN a
    ELSE IF IAbs(a.v) <= 200000
    THEN Fin(ISgn(a.v) * ICbrtIn(IAbs(a.v) * Scale * Scale, 0, 1290))
    ELSE Fin(ISgn(a.v) * 10 * ICbrtIn(IAbs(a.v) * 10, 0, 1290))

\* the square of a value
Squared(r) == DMul(r, r)
\* a to the integer power n >= 0, by squaring
RECURSIVE PowNat(_, _)
PowNat(a, n) ==
    IF n = 0 THEN One
    ELSE IF n % 2 = 1 THEN DMul(a, PowNat(a, n - 1))
    ELSE Squared(PowNat(a, n \div 2))
\* term + the next terms of a power series in x up to the power `last`:
\* each term is the one before times x^step / ((n + 1) ... (n + step)),
\* with the sign changed where sgn = -1
RECURSIVE TaylorSum(_, _, _, _, _, _)
TaylorSum(x, term, n, step, sgn, last) ==
    IF n > last THEN Zero
    ELSE DAdd(term,
              TaylorSum(x,
                        DDiv(DMul(term, IF step = 2 THEN DMul(x, x) ELSE x),
                             DInt(sgn * (IF step = 2 THEN (n + 1) * (n + 2) ELSE n + 1))),
                        n + step, step, sgn, last))
\* exp of a finite x >= 0
RECURSIVE ExpPos(_)
ExpPos(x) ==
    IF x.v > 13 * Scale THEN INF(1)
    ELSE IF 2 * x.v > Scale THEN Squared(ExpPos(Fin(RoundDiv(x.v, 2))))
    ELSE TaylorSum(x, One, 0, 1, 1, 3)
\* exp
DExp(a) ==
    IF isnan(a) THEN a
    ELSE IF isinf(a) THEN (IF a.v > 0 THEN a ELSE Zero)
    ELSE IF a.v < 0 THEN DDiv(One, ExpPos(Fin(-a.v)))
    ELSE ExpPos(a)
\* 2 * (z + z^3 / 3 + z^5 / 5)
AtanhSeries(z) ==
    DMul(DInt(2), DAdd(z, DAdd(DDiv(DMul(Squared(z), z), DInt(3)),
                               DDiv(DMul(Squared(Squared(z)), z), DInt(5)))))
\* log of a finite x > 0
RECURSIVE LnPos(_)
LnPos(x) ==
    IF x.v > 2 * Scale THEN DAdd(LnPos(Fin(RoundDiv(x.v, 2))), Fin(69 * h))
    ELSE IF 2 * x.v < Scale THEN DSub(LnPos(Fin(2 * x.v)), Fin(69 * h))
    ELSE AtanhSeries(DDiv(DSub(x, One), DAdd(x, One)))
\* log
DLn(a) ==
    IF isnan(a) THEN a
    ELSE IF Sgn(a) < 0 THEN NAN
    ELSE IF Sgn(a) = 0 THEN INF(-1)
    ELSE IF isinf(a) THEN a
    ELSE LnPos(a)
\* the argument of sin / cos brought into [-pi, pi)
Reduce(a) == Fin(((a.v + 314 * h) % (628 * h)) - 314 * h)
\* sin
DSin(a) ==
    IF isnan(a) THEN a
    ELSE IF isinf(a) THEN NAN
    ELSE TaylorSum(Reduce(a), Reduce(a), 1, 2, -1, 7)
\* cos
DCos(a) ==
    IF isnan(a) THEN a
    ELSE IF isinf(a) THEN NAN
    ELSE TaylorSum(Reduce(a), One, 0, 2, -1, 6)
\* tan
DTan(a) == DDiv(DSin(a), DCos(a))
\* a to the integer power b of magnitude n
PowInt(a, b, n) ==
    IF b.v < 0
    THEN DDiv(One, IF isinf(a) THEN INF(IF a.v < 0 /\ n % 2 = 1 THEN -1 ELSE 1)
                   ELSE PowNat(a, n))
    ELSE IF isinf(a) THEN INF(IF a.v < 0 /\ n % 2 = 1 THEN -1 ELSE 1)
    ELSE PowNat(a, n)
\* pow
DPow(a, b) ==
    IF DEq(b, Zero) \/ DEq(a, One) THEN One
    ELSE IF isnan(a) \/ isnan(b) THEN PropNaN(a, b)
    ELSE IF isinf(b)
         THEN (IF DEq(DAbs(a), One) THEN One
               ELSE IF DLt(DAbs(a), One) = (b.v > 0) THEN Zero ELSE INF(1))
    ELSE IF b.v % Scale = 0 THEN PowInt(a, b, IAbs(b.v) \div Scale)
    ELSE IF isinf(a) THEN (IF b.v > 0 THEN INF(1) ELSE Zero)
    ELSE IF a.v < 0 THEN NAN
    ELSE IF a.v = 0 THEN (IF b.v > 0 THEN Zero ELSE INF(1))
    ELSE DExp(DMul(b, DLn(a)))

(***************************************************************************)
(* Text and the parse context                                              *)
(***************************************************************************)
\* the character at p; at the end of the text the terminating '\0'
CharAt(s, p) == IF p >= 1 /\ p <= Len(s) THEN s[p] ELSE "NUL"
\* std::string_view(p, n) == key, given that n characters are left
Matches(s, p, key) == \A i \in 1..Len(key) : CharAt(s, p + i - 1) = key[i]

\* struct parse_context: p (pe is Len(s) + 1), arg, dry; s is the text the
\* pointers point into, ord the iteration order of binary_operators
parse_context(str, ord) ==
    [s |-> str, p |-> 1, arg |-> NAN, dry |-> FALSE, ord |-> ord]
pe(c) == Len(c.s) + 1

\* the result of a parse function: its return value, the cursor it leaves,
\* the value it wrote to `var` (meaningful when ok), and two records of the
\* run: alts, the grammar alternatives decided, in order, and calls, the
\* table functions and operator functions invoked, in order
Result(ok, p, var, alts, calls) ==
    [ok |-> ok, p |-> p, var |-> var, alts |-> alts, calls |-> calls]

RECURSIVE MatchFrom(_, _, _, _)
MatchFrom(map, i, c, postfix) ==
    IF i > Len(map) THEN [ok |-> FALSE, p |-> c.p, value |-> "none"]
    ELSE LET key == map[i].key
             key_len == Len(key)
             post_len == Len(postfix)
             leftover_len == pe(c) - c.p
         IN IF leftover_len < key_len + post_len THEN MatchFrom(map, i + 1, c, postfix)
            ELSE IF ~Matches(c.s, c.p, key) THEN MatchFrom(map, i + 1, c, postfix)
            ELSE IF ~Matches(c.s, c.p + key_len, postfix) THEN MatchFrom(map, i + 1, c, postfix)
            ELSE [ok |-> TRUE, p |-> c.p + key_len + post_len, value |-> map[i].value]
\* try_match_dictionary: the first key, in the map's iteration order, that
\* the text at the cursor starts with and that the postfix follows
try_match_dictionary(map, c, postfix) == MatchFrom(map, 1, c, postfix)

(***************************************************************************)
(* std::from_chars for double, on the decimal forms  [-] digits [. digits] *)
(* and  [-] . digits  (exponents and the spellings inf / nan are outside   *)
(* the modelled alphabet)                                                  *)
(***************************************************************************)
DigitSeq == <<"0", "1", "2", "3", "4", "5", "6", "7", "8", "9">>
IsDigit(ch) == \E i \in 1..10 : DigitSeq[i] = ch
DigitValue(ch) == (CHOOSE i \in 1..10 : DigitSeq[i] = ch) - 1
RECURSIVE ScanDigits(_, _)
ScanDigits(s, p) == IF IsDigit(CharAt(s, p)) THEN ScanDigits(s, p + 1) ELSE p
\* the integer s[from..to-1] spells, cut off above MaxMagnitude
RECURSIVE DigitsValue(_, _, _, _)
DigitsValue(s, from, to, acc) ==
    IF from >= to \/ acc > MaxMagnitude THEN acc
    ELSE DigitsValue(s, from + 1, to, acc * 10 + DigitValue(s[from]))
\* the value of the number whose integer digits are s[p1..q1-1] and whose
\* fraction digits are s[q1+1..q2-1]; ip is the integer part
Converted(s, first, neg, p1, q1, q2, ip) ==
    LET dot == CharAt(s, q1) = "."
        has_int == q1 > p1
        has_frac == dot /\ q2 > q1 + 1
        last == IF has_frac \/ (has_int /\ dot) THEN q2 ELSE q1
        d1 == IF q1 + 1 < q2 THEN DigitValue(s[q1 + 1]) ELSE 0
        d2 == IF q1 + 2 < q2 THEN DigitValue(s[q1 + 2]) ELSE 0
        d3 == IF q1 + 3 < q2 THEN DigitValue(s[q1 + 3]) ELSE 0
        fp == IF has_frac THEN (d1 * 10 + d2 + (IF d3 >= 5 THEN 1 ELSE 0)) * h ELSE 0
    IN IF ~has_int /\ ~has_frac
       THEN [ec |-> "invalid_argument", ptr |-> first, value |-> NAN]
       ELSE IF ip > MaxMagnitude \div Scale \/ ip * Scale + fp > MaxMagnitude
       THEN [ec |-> "result_out_of_range", ptr |-> last, value |-> NAN]
       ELSE [ec |-> "ok", ptr |-> last,
             value |-> Fin(IF neg THEN -(ip * Scale + fp) ELSE ip * Scale + fp)]
\* from_chars past the sign: the integer digits are s[p1..q1-1]
ScannedInteger(s, first, neg, p1, q1) ==
    Converted(s, first, neg, p1, q1,
              IF CharAt(s, q1) = "." THEN ScanDigits(s, q1 + 1) ELSE q1,
              DigitsValue(s, p1, q1, 0))
from_chars(s, first) ==
    IF CharAt(s, first) = "-"
    THEN ScannedInteger(s, first, TRUE, first + 1, ScanDigits(s, first + 1))
    ELSE ScannedInteger(s, first, FALSE, first, ScanDigits(s, first))

(***************************************************************************)
(* The tables                                                              *)
(***************************************************************************)
\* try_parse_function::functions, in the order of the initializer list (no
\* text matches two of its keys followed by "(", so its iteration order
\* does not show)
functions ==
    << [key |-> <<"s", "i", "n">>, value |-> "sin"],
       [key |-> <<"c", "o", "s">>, value |-> "cos"],
       [key |-> <<"t", "a", "n">>, value |-> "tan"],
       [key |-> <<"c", "t", "g">>, value |-> "ctg"],
       [key |-> <<"s", "q", "r", "t">>, value |-> "sqrt"],
       [key |-> <<"c", "b", "r", "t">>, value |-> "cbrt"],
       [key |-> <<"s", "q", "r">>, value |-> "sqr"],
       [key |-> <<"a", "b", "s">>, value |-> "abs"],
       [key |-> <<"e", "x", "p">>, value |-> "exp"],
       [key |-> <<"l", "n">>, value |-> "ln"],
       [key |-> <<"l", "g">>, value |-> "lg"],
       [key |-> <<"l", "o", "g", "2">>, value |-> "log2"] >>
\* parsed_func_ptr(func_arg)
apply_function(f, a) ==
    CASE f = "sin" -> DSin(a)
      [] f = "cos" -> DCos(a)
      [] f = "tan" -> DTan(a)
      [] f = "ctg" -> DDiv(One, DTan(a))
      [] f = "sqrt" -> DSqrt(a)
      [] f = "cbrt" -> DCbrt(a)
      [] f = "sqr" -> DMul(a, a)
      [] f = "abs" -> DAbs(a)
      [] f = "exp" -> DExp(a)
      [] f = "ln" -> DLn(a)
      [] f = "lg" -> DDiv(DLn(a), Fin(230 * h))
      [] f = "log2" -> DDiv(DLn(a), Fin(69 * h))

\* try_parse_binary_expr::binary_operators, in the order of the initializer
\* list, and in the opposite order: an unordered_map iterates in an order
\* the library chooses
binary_operators ==
    << [key |-> <<"+">>, value |-> "op_plus"],
       [key |-> <<"-">>, value |-> "op_minus"],
       [key |-> <<"*">>, value |-> "op_multiply"],
       [key |-> <<"/">>, value |-> "op_divide"],
       [key |-> <<"/", "/">>, value |-> "op_divide_integer"],
       [key |-> <<"%">>, value |-> "op_remainder"],
       [key |-> <<"^">>, value |-> "op_power"] >>
Reverse(q) == [i \in 1..Len(q) |-> q[Len(q) + 1 - i]]
IterationOrders == {binary_operators, Reverse(binary_operators)}

op_plus(a, b) == DAdd(a, b)
op_minus(a, b) == DSub(a, b)
op_multiply(a, b) == DMul(a, b)
op_divide(a, b) == DDiv(a, b)
\* trunc(a / b * (1 + 2 * DBL_EPSILON)): the factor is 1 on the grid
op_divide_integer(a, b) == DTrunc(DMul(DDiv(a, b), One))
op_remainder(a, b) == DFmod(a, b)
op_power(a, b) == DPow(a, b)
\* a call through a binary_func pointer
apply_operator(op, a, b) ==
    CASE op = "op_plus" -> op_plus(a, b)
      [] op = "op_minus" -> op_minus(a, b)
      [] op = "op_multiply" -> op_multiply(a, b)
      [] op = "op_divide" -> op_divide(a, b)
      [] op = "op_divide_integer" -> op_divide_integer(a, b)
      [] op = "op_remainder" -> op_remainder(a, b)
      [] op = "op_power" -> op_power(a, b)

operator_precedence(op) ==
    CASE op = "op_plus" -> 1
      [] op = "op_minus" -> 1
      [] op = "op_multiply" -> 2
      [] op = "op_divide" -> 2
      [] op = "op_divide_integer" -> 2
      [] op = "op_remainder" -> 2
      [] op = "op_power" -> 3
takes_precedence(op1, op2) ==
    IF op1 = "op_power" THEN TRUE
    ELSE operator_precedence(op1) > operator_precedence(op2)


(***************************************************************************)
(* The recursive-descent parser.  Each function takes the context by value *)
(* and returns a Result; the caller goes on from the cursor the Result     *)
(* carries, or from its own copy where the code restores cntxt_copy.       *)
(* `var` is written only on the paths that return true.                    *)
(***************************************************************************)
At(c, p) == [c EXCEPT !.p = p]
Fail(p, alts, calls) == Result(FALSE, p, NAN, alts, calls)
AtEndOrClose(c, p) == p = pe(c) \/ CharAt(c.s, p) = ")"


RECURSIVE parse_expression(_)
RECURSIVE try_parse_binary_expr(_, _)

\* try_parse_literal, given what from_chars returned
literal_parsed(result) == Result(result.ec = "ok", result.ptr, result.value, <<>>, <<>>)
try_parse_literal(c) == literal_parsed(from_chars(c.s, c.p))

try_parse_variable(c) ==
    IF c.p = pe(c) THEN Fail(c.p, <<>>, <<>>)
    ELSE LET is_match == CharAt(c.s, c.p) = "x"
         IN IF is_match THEN Result(TRUE, c.p + 1, c.arg, <<>>, <<>>)
            ELSE Fail(c.p, <<>>, <<>>)

\* function_call with the check for ")" left out of the dry run
function_call_unclosed(c, parsed_func_ptr, a) ==
    IF ~a.ok THEN Fail(a.p, a.alts, a.calls)
    ELSE IF c.dry
    THEN Result(TRUE, a.p, Zero, Append(a.alts, "call"), a.calls)
    ELSE IF a.p = pe(c) \/ CharAt(c.s, a.p) # ")" THEN Fail(a.p, a.alts, a.calls)
    ELSE Result(TRUE, a.p + 1, apply_function(parsed_func_ptr, a.var),
                Append(a.alts, "call"), Append(a.calls, parsed_func_ptr))
\* try_parse_function behind the parse a of the argument
function_call(c, parsed_func_ptr, a) ==
    IF ~a.ok THEN Fail(a.p, a.alts, a.calls)
    ELSE IF a.p = pe(c) \/ CharAt(c.s, a.p) # ")" THEN Fail(a.p, a.alts, a.calls)
    ELSE IF c.dry
    THEN Result(TRUE, a.p + 1, Zero, Append(a.alts, "call"), a.calls)
    ELSE Result(TRUE, a.p + 1, apply_function(parsed_func_ptr, a.var),
                Append(a.alts, "call"), Append(a.calls, parsed_func_ptr))
\* try_parse_function behind the match m of the name and "("
function_argument(c, m) ==
    IF ~m.ok THEN Fail(c.p, <<>>, <<>>)
    ELSE function_call(c, m.value, parse_expression(At(c, m.p)))
try_parse_function(c) == function_argument(c, try_match_dictionary(functions, c, <<"(">>))

is_unary_operator(ch) == ch \in {"+", "-"}
\* try_parse_unary_expr behind the parse r of the expression after op
unary_applied(op, r) ==
    IF r.ok /\ op = "-"
    THEN Result(TRUE, r.p, DNeg(r.var), Append(r.alts, "negate"), r.calls)
    ELSE [r EXCEPT !.alts = Append(r.alts, "sign")]
try_parse_unary_expr(c) ==
    IF c.p = pe(c) THEN Fail(c.p, <<>>, <<>>)
    ELSE IF ~is_unary_operator(CharAt(c.s, c.p)) THEN Fail(c.p, <<>>, <<>>)
    ELSE unary_applied(CharAt(c.s, c.p), parse_expression(At(c, c.p + 1)))

\* try_parse_nested_expression behind the parse r of the expression after "("
nested_closed(c, r) ==
    IF ~r.ok THEN Fail(r.p, r.alts, r.calls)
    ELSE IF CharAt(c.s, r.p) # ")" THEN Fail(r.p, r.alts, r.calls)
    ELSE Result(TRUE, r.p + 1, r.var, Append(r.alts, "close"), r.calls)
try_parse_nested_expression(c) ==
    IF c.p = pe(c) \/ CharAt(c.s, c.p) # "(" THEN Fail(c.p, <<>>, <<>>)
    ELSE nested_closed(c, parse_expression(At(c, c.p + 1)))

\* try_parse_operand, alternative by alternative: each is tried from the
\* saved context when the one before it returned false
operand_nested(f, n) ==
    IF n.ok
    THEN Result(TRUE, n.p, n.var, Append(f.alts \o n.alts, "nested"), f.calls \o n.calls)
    ELSE Fail(n.p, Append(f.alts \o n.alts, "no operand"), f.calls \o n.calls)
operand_function(c, f) ==
    IF f.ok THEN [f EXCEPT !.alts = Append(f.alts, "function")]
    ELSE operand_nested(f, try_parse_nested_expression(c))
operand_variable(c, v) ==
    IF v.ok THEN [v EXCEPT !.alts = <<"variable">>]
    ELSE operand_function(c, try_parse_function(c))
operand_literal(c, l) ==
    IF l.ok THEN [l EXCEPT !.alts = <<"literal">>]
    ELSE operand_variable(c, try_parse_variable(c))
try_parse_operand(c) == operand_literal(c, try_parse_literal(c))

\* struct operand; has = FALSE stands for the null p_operand1
operand(value, next_operator) ==
    [has |-> TRUE, value |-> value, next_operator |-> next_operator]
nullptr == [has |-> FALSE, value |-> NAN, next_operator |-> "none"]

\* try_parse_binary_expr up to `operand& operand1 = *p_operand1`: either it
\* has returned result, or it goes on at cursor p with operand1
Returned(result) ==
    [go |-> FALSE, result |-> result, p |-> result.p, operand1 |-> nullptr,
     alts |-> result.alts, calls |-> result.calls]
Goes(p, operand1, alts, calls) ==
    [go |-> TRUE, result |-> Fail(p, alts, calls), p |-> p, operand1 |-> operand1,
     alts |-> alts, calls |-> calls]
binary_first_operator(o1, m) ==
    IF ~m.ok THEN Returned(Fail(o1.p, Append(o1.alts, "no operator"), o1.calls))
    ELSE Goes(m.p, operand(o1.var, m.value), o1.alts, o1.calls)
binary_first_operand(c, o1) ==
    IF ~o1.ok THEN Returned(o1)
    ELSE IF AtEndOrClose(c, o1.p)
    THEN Returned([o1 EXCEPT !.alts = Append(o1.alts, "single")])
    ELSE binary_first_operator(o1, try_match_dictionary(c.ord, At(c, o1.p), <<>>))
binary_operand1(c, p_operand1) ==
    IF ~p_operand1.has THEN binary_first_operand(c, try_parse_operand(c))
    ELSE Goes(c.p, p_operand1, <<>>, <<>>)

\* the branch `takes_precedence(...)`: rest is the parse of what follows
binary_climbed(operand1, alts1, calls1, rest) ==
    IF ~rest.ok
    THEN Fail(rest.p, Append(alts1, "climb") \o rest.alts, calls1 \o rest.calls)
    ELSE Result(TRUE, rest.p,
                apply_operator(operand1.next_operator, operand1.value, rest.var),
                Append(alts1, "climb") \o rest.alts,
                Append(calls1 \o rest.calls, operand1.next_operator))
\* the else branch: r is the parse of what follows, begun with the value of
\* operand1 and operand2 combined
binary_reduced(operand1, alts1, calls1, r) ==
    [r EXCEPT !.alts = Append(alts1, "reduce") \o r.alts,
              !.calls = Append(calls1, operand1.next_operator) \o r.calls]
\* behind the match m of the operator that follows operand2
binary_second_operator(c, operand1, o2, alts1, calls1, m) ==
    IF ~m.ok THEN Fail(o2.p, Append(alts1, "no operator"), calls1)
    ELSE IF takes_precedence(m.value, operand1.next_operator)
    THEN binary_climbed(operand1, alts1, calls1,
                        try_parse_binary_expr(At(c, m.p), operand(o2.var, m.value)))
    ELSE binary_reduced(operand1, alts1, calls1,
                        try_parse_binary_expr(
                            At(c, m.p),
                            operand(apply_operator(operand1.next_operator,
                                                   operand1.value, o2.var),
                                    m.value)))
\* behind the parse o2 of operand2
binary_second_operand(c, operand1, alts0, calls0, o2) ==
    IF ~o2.ok THEN Fail(o2.p, alts0 \o o2.alts, calls0 \o o2.calls)
    ELSE IF AtEndOrClose(c, o2.p)
    THEN (IF c.dry
          THEN Result(TRUE, o2.p, Zero, Append(alts0 \o o2.alts, "last"),
                      calls0 \o o2.calls)
          ELSE Result(TRUE, o2.p,
                      apply_operator(operand1.next_operator, operand1.value, o2.var),
                      Append(alts0 \o o2.alts, "last"),
                      Append(calls0 \o o2.calls, operand1.next_operator)))
    ELSE binary_second_operator(c, operand1, o2, alts0 \o o2.alts, calls0 \o o2.calls,
                                try_match_dictionary(c.ord, At(c, o2.p), <<>>))
\* the part of try_parse_binary_expr behind operand1
BinaryTail(c, lead) ==
    IF ~lead.go THEN lead.result
    ELSE binary_second_operand(c, lead.operand1, lead.alts, lead.calls,
                               try_parse_operand(At(c, lead.p)))

try_parse_binary_expr(c, p_operand1) == BinaryTail(c, binary_operand1(c, p_operand1))

\* parse_expression, alternative by alternative, each from cntxt_copy
expression_unary(b, f, u) ==
    [u EXCEPT !.alts = Append(b.alts \o f.alts \o u.alts,
                              IF u.ok THEN "unary" ELSE "no expression"),
              !.calls = b.calls \o f.calls \o u.calls]
expression_function(c, b, f) ==
    IF f.ok
    THEN [f EXCEPT !.alts = Append(b.alts \o f.alts, "function call"),
                   !.calls = b.calls \o f.calls]
    ELSE expression_unary(b, f, try_parse_unary_expr(c))
expression_binary(c, b) ==
    IF b.ok THEN [b EXCEPT !.alts = Append(b.alts, "binary")]
    ELSE expression_function(c, b, try_parse_function(c))
parse_expression(c) ==
    IF c.p = pe(c) THEN Fail(c.p, <<"empty">>, <<>>)
    ELSE expression_binary(c, try_parse_binary_expr(c, nullptr))

(***************************************************************************)
(* class formula                                                           *)
(***************************************************************************)
isblank(ch) == ch \in {" ", "TAB"}
\* formula::formula: the expression without its blank characters
RECURSIVE formula(_)
formula(expression) ==
    IF expression = <<>> THEN <<>>
    ELSE IF isblank(Head(expression)) THEN formula(Tail(expression))
    ELSE <<Head(expression)>> \o formula(Tail(expression))

\* ParenScan without the check for a negative level inside the loop
RECURSIVE ParenScanToEnd(_, _, _)
ParenScanToEnd(m_expr, i, parentheses_level) ==
    IF i > Len(m_expr) THEN [neg |-> 0, level |-> parentheses_level]
    ELSE ParenScanToEnd(m_expr, i + 1,
                        parentheses_level
                            + (IF m_expr[i] = "(" THEN 1 ELSE 0)
                            - (IF m_expr[i] = ")" THEN 1 ELSE 0))
\* the loop of formula::validate: the index of the first ')' that makes the
\* level negative, or 0 and the final level
RECURSIVE ParenScan(_, _, _)
ParenScan(m_expr, i, parentheses_level) ==
    IF i > Len(m_expr) THEN [neg |-> 0, level |-> parentheses_level]
    ELSE LET lv == parentheses_level
                   + (IF m_expr[i] = "(" THEN 1 ELSE 0)
                   - (IF m_expr[i] = ")" THEN 1 ELSE 0)
         IN IF lv < 0 THEN [neg |-> i, level |-> lv]
            ELSE ParenScan(m_expr, i + 1, lv)

\* formula::validate: the return value, err_msg, err_pos, and whether the
\* parser ran, with the Result of its dry run
validate_parsed(dry_parse_result) ==
    [ret |-> dry_parse_result.ok,
     err_msg |-> IF ~dry_parse_result.ok THEN "failed to classify token sequence" ELSE "",
     err_pos |-> dry_parse_result.p,
     parsed |-> TRUE, run |-> dry_parse_result]
validate_scanned(m_expr, ord, scan) ==
    IF scan.neg # 0
    THEN [ret |-> FALSE, err_msg |-> "unexpected ')'", err_pos |-> scan.neg,
          parsed |-> FALSE, run |-> Fail(0, <<>>, <<>>)]
    ELSE IF scan.level # 0
    THEN [ret |-> FALSE, err_msg |-> "no ')' to match '('", err_pos |-> Len(m_expr) + 1,
          parsed |-> FALSE, run |-> Fail(0, <<>>, <<>>)]
    ELSE validate_parsed(parse_expression([parse_context(m_expr, ord) EXCEPT !.dry = TRUE]))
validate(m_expr, ord) == validate_scanned(m_expr, ord, ParenScan(m_expr, 1, 0))

\* formula::operator(): the value returned, with the Result of its parse
evaluated(run) == [result |-> IF run.ok THEN run.var ELSE SENTINEL, run |-> run]
Evaluate(m_expr, ord, x) ==
    evaluated(parse_expression([parse_context(m_expr, ord) EXCEPT !.arg = x]))

(***************************************************************************)
(* The root-finding methods.  `f` is the function they are handed, `a`     *)
(* their other arguments; each method is its entry code and one pass of    *)
(* its `while (true)` loop, both returning an Outcome: whether the method  *)
(* returned and what, the locals it leaves, the reports it made, and       *)
(* whether the pass got beyond its step-budget check.                      *)
(***************************************************************************)
\* the values of a double
Doubles == [k : {"fin", "inf", "nan"}, v : Int]
\* formula::operator() of the formula m, as a function of its argument
F(m, o, x) == Evaluate(m, o, x).result
\* func f = const formula&: what the methods are handed
func(m, o) == [x \in Doubles |-> F(m, o, x)]

sign(x) == IF isnan(x) THEN x ELSE DInt(Sgn(x))
Two == DInt(2)
get_second_difference(f, x) ==
    DAdd(DSub(f[DAdd(x, Fin(h))], DMul(Two, f[x])), f[DSub(x, Fin(h))])
\* std::copysign(a, b) == a; nan_sign is the sign bit the build gives a NaN b
sign_matches(a, b, nan_sign) ==
    IF isnan(a) THEN FALSE
    ELSE IF isnan(b) THEN DEq(IF nan_sign < 0 THEN DNeg(DAbs(a)) ELSE DAbs(a), a)
    ELSE DEq(copysign(a, b), a)
finite_difference_derivative(f, x) ==
    DDiv(DSub(f[DAdd(x, Fin(h))], f[DSub(x, Fin(h))]), DMul(Two, Fin(h)))
finite_difference_second_derivative(f, x) ==
    DDiv(get_second_difference(f, x), DMul(Two, Fin(h)))
isinfnan(x) == isnan(x) \/ isinf(x)
\* std::ranges::min({x1, x2, mid}, {}, |f|): the first of the smallest
estimate_root(f, x1, x2) ==
    LET mid == DDiv(DAdd(x1, x2), Two)
        key(x) == DAbs(f[x])
        best2 == IF DLt(key(x2), key(x1)) THEN x2 ELSE x1
    IN IF DLt(key(mid), key(best2)) THEN mid ELSE best2
\* std::max(a, b)
DMax(a, b) == IF DLt(a, b) THEN b ELSE a

Report(step, x, y, at) == [step |-> step, x |-> x, y |-> y, at |-> at]
Return(value, l, rep, counted) ==
    [returned |-> TRUE, ret |-> value, loc |-> l, rep |-> rep, counted |-> counted]
Continue(l, rep) ==
    [returned |-> FALSE, ret |-> NAN, loc |-> l, rep |-> rep, counted |-> TRUE]

\* budget_exhausted one step late
budget_exhausted_late(step, max_steps) == step = max_steps + 1
\* `if (step == max_steps) return NAN;` (with step++ in four of the methods)
budget_exhausted(step, max_steps) == step = max_steps

run_secant_method_enter(f, a) ==
    Continue([x1 |-> a.x1, x2 |-> a.x2, x |-> Zero, lambda |-> Zero, step |-> 0], <<>>)
\* run_secant_method_pass without `++step`
run_secant_method_pass_uncounted(f, a, l) ==
    IF l.step = a.max_steps THEN Return(NAN, l, <<>>, FALSE)
    ELSE LET dx == DDiv(DMul(f[l.x1], DSub(l.x2, l.x1)), DSub(f[l.x2], f[l.x1]))
             x3 == DSub(l.x1, dx)
             rep == <<Report(l.step, x3, f[x3], "loop")>>
         IN IF isinfnan(x3) THEN Return(NAN, l, rep, TRUE)
            ELSE IF DLe(DAbs(dx), DDiv(a.x_precision, Two)) THEN Return(x3, l, rep, TRUE)
            ELSE Continue([l EXCEPT !.x1 = l.x2, !.x2 = x3], rep)
run_secant_method_pass(f, a, l) ==
    IF budget_exhausted(l.step, a.max_steps) THEN Return(NAN, l, <<>>, FALSE)
    ELSE LET f1 == f[l.x1]
             f2 == f[l.x2]
             dx == DDiv(DMul(f[l.x1], DSub(l.x2, l.x1)), DSub(f2, f1))
             x3 == DSub(l.x1, dx)
             step == l.step + 1
             rep == <<Report(step, x3, f[x3], "loop")>>
             l1 == [l EXCEPT !.step = step]
         IN IF isinfnan(x3) THEN Return(NAN, l1, rep, TRUE)
            ELSE IF DLe(DAbs(dx), DDiv(a.x_precision, Two)) THEN Return(x3, l1, rep, TRUE)
            ELSE Continue([l1 EXCEPT !.x1 = l.x2, !.x2 = x3], rep)

run_chord_method_enter(f, a, nan_sign) ==
    LET keep == sign_matches(f[a.x1], get_second_difference(f, a.x1), nan_sign)
    IN Continue([x1 |-> IF keep THEN a.x1 ELSE a.x2,
                 x2 |-> IF keep THEN a.x2 ELSE a.x1,
                 x |-> Zero, lambda |-> Zero, step |-> 0], <<>>)
run_chord_method_pass(f, a, l) ==
    IF budget_exhausted(l.step, a.max_steps) THEN Return(NAN, l, <<>>, FALSE)
    ELSE LET f1 == f[l.x1]
             f2 == f[l.x2]
             dx == DDiv(DMul(f[l.x2], DSub(l.x2, l.x1)), DSub(f2, f1))
             x3 == DSub(l.x2, dx)
             step == l.step + 1
             rep == <<Report(step, x3, f[x3], "loop")>>
             l1 == [l EXCEPT !.step = step]
         IN IF isinfnan(x3) THEN Return(NAN, l1, rep, TRUE)
            ELSE IF DLe(DAbs(dx), DDiv(a.x_precision, Two)) THEN Return(x3, l1, rep, TRUE)
            ELSE Continue([l1 EXCEPT !.x2 = x3], rep)

run_dichotomy_method_enter(f, a) ==
    LET s1 == sign(f[a.x1])
        s2 == sign(f[a.x2])
        l0 == [x1 |-> a.x1, x2 |-> a.x2, x |-> Zero, lambda |-> Zero, step |-> 0]
    IN IF DEq(s1, Zero) THEN Return(a.x1, l0, <<>>, FALSE)
       ELSE IF DEq(s2, Zero) THEN Return(a.x2, l0, <<>>, FALSE)
       ELSE IF DEq(s1, s2) THEN Return(NAN, l0, <<>>, FALSE)
       ELSE IF DNe(s1, One) THEN Continue([l0 EXCEPT !.x1 = a.x2, !.x2 = a.x1], <<>>)
       ELSE Continue(l0, <<>>)
run_dichotomy_method_pass(f, a, l) ==
    LET step == l.step + 1
        l1 == [l EXCEPT !.step = step]
    IN IF budget_exhausted(l.step, a.max_steps) THEN Return(NAN, l1, <<>>, FALSE)
       ELSE LET mid == DDiv(DAdd(l.x1, l.x2), Two)
                length == DAbs(DSub(l.x2, l.x1))
                mid_val == f[mid]
                rep == <<Report(step, mid, mid_val, "loop")>>
                mid_sign == sign(mid_val)
            IN IF DLe(length, a.x_precision) THEN Return(mid, l1, <<>>, TRUE)
               ELSE IF DEq(mid_sign, Zero) THEN Return(mid, l1, rep, TRUE)
               ELSE IF DEq(mid_sign, One) THEN Continue([l1 EXCEPT !.x1 = mid], rep)
               ELSE IF DEq(mid_sign, DNeg(One)) THEN Continue([l1 EXCEPT !.x2 = mid], rep)
               ELSE Return(NAN, l1, rep, TRUE)

\* main calls Newton and Halley from x0 = (l + r) / 2
run_newthon_method_enter(f, a) ==
    Continue([x1 |-> Zero, x2 |-> Zero, x |-> DDiv(DAdd(a.x1, a.x2), Two),
              lambda |-> Zero, step |-> 0], <<>>)
run_newthon_method_pass(f, a, l) ==
    LET step == l.step + 1
        l1 == [l EXCEPT !.step = step]
    IN IF budget_exhausted(l.step, a.max_steps) THEN Return(NAN, l1, <<>>, FALSE)
       ELSE IF isinfnan(l.x) THEN Return(NAN, l1, <<>>, TRUE)
       ELSE LET dx == DDiv(f[l.x], finite_difference_derivative(f, l.x))
                x == DSub(l.x, dx)
                rep == <<Report(step, x, f[x], "loop")>>
                l2 == [l1 EXCEPT !.x = x]
            IN IF DLe(DAbs(dx), DDiv(a.x_precision, Two)) THEN Return(x, l2, rep, TRUE)
               ELSE IF isinfnan(x) THEN Return(NAN, l2, rep, TRUE)
               ELSE Continue(l2, rep)

run_halley_method_enter(f, a) == run_newthon_method_enter(f, a)
run_halley_method_pass(f, a, l) ==
    LET step == l.step + 1
        l1 == [l EXCEPT !.step = step]
    IN IF budget_exhausted(l.step, a.max_steps) THEN Return(NAN, l1, <<>>, FALSE)
       ELSE IF isinfnan(l.x) THEN Return(NAN, l1, <<>>, TRUE)
       ELSE LET dfdx == finite_difference_derivative(f, l.x)
                aa == DDiv(f[l.x], dfdx)
                b == DSub(One, DDiv(DMul(aa, finite_difference_second_derivative(f, l.x)),
                                    DMul(Two, dfdx)))
                dx == DDiv(aa, b)
                x == DSub(l.x, dx)
                rep == <<Report(step, x, f[x], "loop")>>
                l2 == [l1 EXCEPT !.x = x]
            IN IF DLe(DAbs(dx), DDiv(a.x_precision, Two)) THEN Return(x, l2, rep, TRUE)
               ELSE IF isinfnan(x) THEN Return(NAN, l2, rep, TRUE)
               ELSE Continue(l2, rep)

run_simple_iterations_method_enter(f, a) ==
    LET dfdx1 == finite_difference_derivative(f, a.x1)
        dfdx2 == finite_difference_derivative(f, a.x2)
        adfdx1 == DAbs(dfdx1)
        adfdx2 == DAbs(dfdx2)
        max_derivative == DMax(adfdx1, adfdx2)
        lambda == DDiv(DInt(IF Sgn(dfdx1) < 0 THEN -1 ELSE 1), max_derivative)
        x == estimate_root(f, a.x1, a.x2)
        l0 == [x1 |-> a.x1, x2 |-> a.x2, x |-> Zero, lambda |-> Zero, step |-> 0]
    IN IF DNe(sign(dfdx1), sign(dfdx2)) THEN Return(NAN, l0, <<>>, FALSE)
       ELSE IF DEq(max_derivative, Zero) THEN Return(NAN, l0, <<>>, FALSE)
       ELSE Continue([l0 EXCEPT !.x = x, !.lambda = lambda],
                     <<Report(0, x, f[x], "entry")>>)
run_simple_iterations_method_pass(f, a, l) ==
    LET step == l.step + 1
        l1 == [l EXCEPT !.step = step]
    IN IF budget_exhausted(l.step, a.max_steps) THEN Return(NAN, l1, <<>>, FALSE)
       ELSE IF isinfnan(l.x) THEN Return(NAN, l1, <<>>, TRUE)
       ELSE LET y == f[l.x]
                dx == DMul(l.lambda, y)
                x == DSub(l.x, dx)
                rep == <<Report(step, x, y, "loop")>>
                l2 == [l1 EXCEPT !.x = x]
            IN IF DLt(DAbs(dx), DDiv(a.x_precision, Two)) THEN Return(x, l2, rep, TRUE)
               ELSE Continue(l2, rep)
(***************************************************************************)
(* The program state                                                       *)
(***************************************************************************)
VARIABLES
    pc,        \* where the program is
    str,       \* the line read (main: std::getline)
    m_expr,    \* formula::m_expr
    ord,       \* the iteration order of binary_operators in this build
    val,       \* what the last formula::validate returned and did
    ev,        \* what the last formula::operator() returned and did
    mth,       \* the root-finding call: method, f's text, arguments
    loc,       \* its locals: x1, x2, x, lambda, step
    reports,   \* the calls of report_approximation so far: <<step, x, y>>
    iters,     \* how many times the method's loop passed its budget check
    ret        \* the value the method returned

vars == <<pc, str, m_expr, ord, val, ev, mth, loc, reports, iters, ret>>
method_vars == <<mth, loc, reports, iters, ret>>

\* longest input line, in pieces
MaxPieces == 3
\* the pieces input lines are put together from
Pieces ==
    { <<"1">>, <<"x">>, <<"+">>, <<"-">>, <<"/">>, <<"^">>, <<"(">>, <<")">>,
      <<"l", "n", "(">>, <<" ">> }
RECURSIVE Lines(_)
Lines(n) ==
    IF n = 0 THEN {<<>>}
    ELSE LET shorter == Lines(n - 1)
         IN shorter \cup {l \o q : l \in shorter, q \in Pieces}
\* longer lines: operator chains, nesting, and blanks
LongLines ==
    { <<"1", "+", "1", "+", "1">>,
      <<"1", "+", "1", "/", "1">>,
      <<"1", "/", "1", "+", "x">>,
      <<"1", "/", "/", "1", "-", "x">>,
      <<"2", " ", "+", " ", "3", " ", "*", " ", "4">>,
      <<"TAB", "x", " ", "^", "2", " ">>,
      <<"l", "n", "(", "1", "+", "x", ")">>,
      <<"-", "s", "q", "r", "t", "(", "x", ")", "+", "1">>,
      <<"(", "(", "x", ")", ")", "%", "2">>,
      <<"s", "i", "n", "(", "x", ")", "x", "+">>,
      <<"l", "n", "(", "x", ")", "x">>,
      <<"1", "/", "/", "1">>,
      <<"x", "*", "x", "-", "2">>,
      <<"(", "1", "+", "x", ")", ")", "(">> }
Inputs == Lines(MaxPieces) \cup LongLines

\* longest chain of the arithmetic lines, in operands
MaxOperands == 4
\* parenthesis-free lines of integer literals and + - * ^
RECURSIVE Chains(_)
Chains(n) ==
    IF n = 1 THEN {<<d>> : d \in {"1", "2", "3"}}
    ELSE LET shorter == Chains(n - 1)
         IN shorter \cup {l \o <<o, d>> : l \in shorter,
                                          o \in {"+", "-", "*", "^"},
                                          d \in {"1", "2", "3"}}
ArithmeticInputs == Chains(MaxOperands)
\* the arguments operator() is called with
ArgSamples == {Zero, DInt(2), SENTINEL}

NoValidate == [ret |-> FALSE, err_msg |-> "", err_pos |-> 0, parsed |-> FALSE,
               run |-> Fail(0, <<>>, <<>>)]
NoEvaluate == [result |-> NAN, run |-> Fail(0, <<>>, <<>>), arg |-> NAN]
NoMethod == [method |-> "none", x_precision |-> Zero, x1 |-> Zero, x2 |-> Zero,
             max_steps |-> 0]
NoLocals == [x1 |-> Zero, x2 |-> Zero, x |-> Zero, lambda |-> Zero, step |-> 0]

InitWith(lines) ==
    /\ pc = "read"
    /\ str \in lines
    /\ m_expr = <<>>
    /\ ord \in IterationOrders
    /\ val = NoValidate
    /\ ev = NoEvaluate
    /\ mth = NoMethod
    /\ loc = NoLocals
    /\ reports = <<>>
    /\ iters = 0
    /\ ret = NAN
Init == InitWith(Inputs)

\* main, line 257: f = formula(str)
Construct ==
    /\ pc = "read"
    /\ m_expr' = formula(str)
    /\ pc' = "constructed"
    /\ UNCHANGED <<str, ord, val, ev>>
    /\ UNCHANGED method_vars

\* main, line 259: f.validate(str, perr)
Validate ==
    /\ pc = "constructed"
    /\ val' = validate(m_expr, ord)
    /\ pc' = "validated"
    /\ UNCHANGED <<str, m_expr, ord, ev>>
    /\ UNCHANGED method_vars

\* a call f(x): what it returned and did, and its argument
Called(e, x) == [result |-> e.result, run |-> e.run, arg |-> x]
Call ==
    /\ pc = "validated"
    /\ \E x \in ArgSamples : ev' = Called(Evaluate(m_expr, ord, x), x)
    /\ pc' = "evaluated"
    /\ UNCHANGED <<str, m_expr, ord, val>>
    /\ UNCHANGED method_vars

Next == Construct \/ Validate \/ Call
Spec == Init /\ [][Next]_vars

\* the same program, reading an arithmetic line
InitArithmetic == InitWith(ArithmeticInputs)
SpecArithmetic == InitArithmetic /\ [][Next]_vars


(***************************************************************************)
(* The program calling one root-finding method on a validated formula      *)
(***************************************************************************)
\* largest step budget
MaxSteps == 3
Methods == {"secant", "chord", "dichotomy", "newthon", "halley", "simple_iterations"}
\* the formulas the methods are run on
MethodFormulas ==
    { <<"x">>,
      <<"x", "-", "1">>,
      <<"x", "*", "x", "-", "2">>,
      <<"x", "*", "x", "+", "1">>,
      <<"s", "q", "r", "t", "(", "x", ")">>,
      <<"1", "/", "x">>,
      <<"2">> }
\* the end points (main: l = -2, r = 3) and the precisions
EndPoints == {<<DInt(-2), DInt(3)>>, <<Zero, DInt(3)>>, <<DInt(1), DInt(3)>>,
              <<DInt(-2), DInt(1)>>, <<DInt(3), DInt(-2)>>, <<DInt(1), DInt(1)>>}
Precisions == {Fin(2 * h), Fin(50 * h)}

InitMethods ==
    /\ pc = "call"
    /\ m_expr \in MethodFormulas
    /\ str = m_expr
    /\ ord = binary_operators
    /\ val = validate(m_expr, ord)
    /\ ev = NoEvaluate
    /\ \E method \in Methods, ends \in EndPoints, prec \in Precisions, n \in 0..MaxSteps :
          mth = [method |-> method, x_precision |-> prec, x1 |-> ends[1], x2 |-> ends[2],
                 max_steps |-> n]
    /\ loc = NoLocals
    /\ reports = <<>>
    /\ iters = 0
    /\ ret = NAN

\* what an Outcome does to the state
Apply(out, in_loop) ==
    /\ loc' = out.loc
    /\ reports' = reports \o out.rep
    /\ iters' = IF in_loop /\ out.counted THEN iters + 1 ELSE iters
    /\ pc' = IF out.returned THEN "done" ELSE "loop"
    /\ ret' = IF out.returned THEN out.ret ELSE ret
    /\ UNCHANGED <<mth, str, m_expr, ord, val, ev>>

Entering(method) == pc = "call" /\ mth.method = method
Looping(method) == pc = "loop" /\ mth.method = method

SecantEnter == Entering("secant") /\ Apply(run_secant_method_enter(func(m_expr, ord), mth), FALSE)
SecantPass == Looping("secant") /\ Apply(run_secant_method_pass(func(m_expr, ord), mth, loc), TRUE)
ChordEnter ==
    /\ Entering("chord")
    /\ \E nan_sign \in {-1, 1} : Apply(run_chord_method_enter(func(m_expr, ord), mth, nan_sign), FALSE)
ChordPass == Looping("chord") /\ Apply(run_chord_method_pass(func(m_expr, ord), mth, loc), TRUE)
DichotomyEnter ==
    Entering("dichotomy") /\ Apply(run_dichotomy_method_enter(func(m_expr, ord), mth), FALSE)
DichotomyPass ==
    Looping("dichotomy") /\ Apply(run_dichotomy_method_pass(func(m_expr, ord), mth, loc), TRUE)
NewthonEnter == Entering("newthon") /\ Apply(run_newthon_method_enter(func(m_expr, ord), mth), FALSE)
NewthonPass == Looping("newthon") /\ Apply(run_newthon_method_pass(func(m_expr, ord), mth, loc), TRUE)
HalleyEnter == Entering("halley") /\ Apply(run_halley_method_enter(func(m_expr, ord), mth), FALSE)
HalleyPass == Looping("halley") /\ Apply(run_halley_method_pass(func(m_expr, ord), mth, loc), TRUE)
SimpleIterationsEnter ==
    /\ Entering("simple_iterations")
    /\ Apply(run_simple_iterations_method_enter(func(m_expr, ord), mth), FALSE)
SimpleIterationsPass ==
    /\ Looping("simple_iterations")
    /\ Apply(run_simple_iterations_method_pass(func(m_expr, ord), mth, loc), TRUE)

NextMethods ==
    \/ SecantEnter \/ SecantPass
    \/ ChordEnter \/ ChordPass
    \/ DichotomyEnter \/ DichotomyPass
    \/ NewthonEnter \/ NewthonPass
    \/ HalleyEnter \/ HalleyPass
    \/ SimpleIterationsEnter \/ SimpleIterationsPass
SpecMethods == InitMethods /\ [][NextMethods]_vars

(***************************************************************************)
(* Claims about the parser                                                 *)
(***************************************************************************)
Validated == pc \in {"validated", "evaluated"}
EndOf(m) == Len(m) + 1

\* the value of the standard grouping of the arithmetic text s[i..j]: the
\* last + or - splits it, else the last *, else the first ^
IndicesOf(s, i, j, ops) == {k \in i..j : s[k] \in ops}
Largest(S) == CHOOSE k \in S : \A l \in S : l <= k
Smallest(S) == CHOOSE k \in S : \A l \in S : k <= l
RECURSIVE StandardValue(_, _, _)
StandardValue(s, i, j) ==
    LET additive == IndicesOf(s, i, j, {"+", "-"})
        multiplicative == IndicesOf(s, i, j, {"*"})
        powers == IndicesOf(s, i, j, {"^"})
    IN IF additive # {}
       THEN LET k == Largest(additive)
            IN IF s[k] = "+"
               THEN DAdd(StandardValue(s, i, k - 1), StandardValue(s, k + 1, j))
               ELSE DSub(StandardValue(s, i, k - 1), StandardValue(s, k + 1, j))
       ELSE IF multiplicative # {}
       THEN LET k == Largest(multiplicative)
            IN DMul(StandardValue(s, i, k - 1), StandardValue(s, k + 1, j))
       ELSE IF powers # {}
       THEN LET k == Smallest(powers)
            IN DPow(StandardValue(s, i, k - 1), StandardValue(s, k + 1, j))
       ELSE DInt(DigitsValue(s, i, j + 1, 0))
\* digits (op digits)* with op one of + - * ^
IsArithmetic(s) ==
    /\ Len(s) >= 1
    /\ \A k \in 1..Len(s) : IsDigit(s[k]) \/ s[k] \in {"+", "-", "*", "^"}
    /\ IsDigit(s[1]) /\ IsDigit(s[Len(s)])
    /\ \A k \in 1..(Len(s) - 1) : IsDigit(s[k]) \/ IsDigit(s[k + 1])

\* C1: for every parenthesis-free expression of integer literals and the
\* operators + - * ^, operator() returns the value of the standard grouping
\* (^ tightest and right-to-left, then *, then + and -, equal precedence
\* left-to-right).
C1_StandardGrouping ==
    (pc = "evaluated" /\ IsArithmetic(m_expr))
        => ev.result = StandardValue(m_expr, 1, Len(m_expr))

\* the grammar of the specification, on the text s[i..j-1]:
\*   Expression := BinaryExpr | FunctionCall | UnaryExpr
\*   BinaryExpr := Operand (BinOp Operand)*
\*   Operand    := Literal | x | FunctionCall | '(' Expression ')'
\*   UnaryExpr  := ('+' | '-') Expression
FunctionNames == {functions[n].key : n \in 1..Len(functions)}
OperatorNames == {binary_operators[n].key : n \in 1..Len(binary_operators)}
StartsWith(s, i, j, key) == i + Len(key) <= j /\ Matches(s, i, key)
IsLiteral(s, i, j) ==
    /\ i < j
    /\ \A k \in i..(j - 1) : IsDigit(s[k]) \/ s[k] = "."
    /\ Cardinality({k \in i..(j - 1) : s[k] = "."}) <= 1
    /\ \E k \in i..(j - 1) : IsDigit(s[k])
RECURSIVE IsExpression(_, _, _)
RECURSIVE IsBinaryExpr(_, _, _)
IsFunctionCall(s, i, j) ==
    \E name \in FunctionNames :
        /\ StartsWith(s, i, j, name \o <<"(">>)
        /\ s[j - 1] = ")"
        /\ IsExpression(s, i + Len(name) + 1, j - 1)
IsOperand(s, i, j) ==
    \/ IsLiteral(s, i, j)
    \/ (j = i + 1 /\ s[i] = "x")
    \/ IsFunctionCall(s, i, j)
    \/ (i + 2 < j /\ s[i] = "(" /\ s[j - 1] = ")" /\ IsExpression(s, i + 1, j - 1))
IsBinaryExpr(s, i, j) ==
    \/ IsOperand(s, i, j)
    \/ \E k \in (i + 1)..(j - 2) : \E o \in OperatorNames :
          /\ StartsWith(s, k, j, o)
          /\ IsOperand(s, i, k)
          /\ IsBinaryExpr(s, k + Len(o), j)
IsExpression(s, i, j) ==
    /\ i < j
    /\ \/ IsBinaryExpr(s, i, j)
       \/ IsFunctionCall(s, i, j)
       \/ (s[i] \in {"+", "-"} /\ IsExpression(s, i + 1, j))

\* C2: validate returns true for every expression of the grammar, whatever
\* the iteration order of the operator table; `//` is not read as `/` `/`.
C2_GrammarAccepted ==
    (Validated /\ IsExpression(m_expr, 1, EndOf(m_expr))) => val.ret

\* C3: whenever validate returns true the dry-run parse has consumed the
\* whole text: the cursor is at its end.
C3_WholeTextConsumed ==
    (Validated /\ val.ret) => val.err_pos = EndOf(m_expr)

\* nesting depth after the first i characters
Depth(m, i) ==
    Cardinality({k \in 1..i : m[k] = "("}) - Cardinality({k \in 1..i : m[k] = ")"})
Mismatched(m) == (\E i \in 1..Len(m) : Depth(m, i) < 0) \/ Depth(m, Len(m)) # 0
\* where validate must point: the first ')' that makes the depth negative,
\* else the end of the text
OffendingPosition(m) ==
    IF \E i \in 1..Len(m) : Depth(m, i) < 0
    THEN Smallest({i \in 1..Len(m) : Depth(m, i) < 0})
    ELSE EndOf(m)

\* C4: for mismatched parentheses validate returns false with err_pos at
\* the first ')' that makes the depth negative, or at the end of the text
\* when the final depth is positive, and does not run the parser.
C4_MismatchedParentheses ==
    (Validated /\ Mismatched(m_expr))
        => /\ ~val.ret
           /\ val.err_pos = OffendingPosition(m_expr)
           /\ ~val.parsed
\* a validated text with a ')' too many after a balanced opening
C4_Witness ==
    /\ pc = "validated"
    /\ Mismatched(m_expr)
    /\ val.err_pos > 2
    /\ val.err_pos < EndOf(m_expr)
    /\ m_expr[val.err_pos] = ")"

\* the parse of the text in dry mode, as validate runs it
DryRun(m, o) == parse_expression([parse_context(m, o) EXCEPT !.dry = TRUE])
SameParse(a, b) == a.alts = b.alts /\ a.ok = b.ok /\ a.p = b.p

C8_DryInvokesNothing ==
    (Validated /\ val.parsed) => val.run.calls = <<>>


(***************************************************************************)
(* Claims about the root-finding methods                                   *)
(***************************************************************************)
\* C5 as stated: with max_steps = 0 every method returns NaN.
C5_ZeroBudgetReturnsNaN ==
    (pc = "done" /\ mth.max_steps = 0) => isnan(ret)
\* C5 amended: with max_steps = 0 every method returns NaN, except that
\* dichotomy returns an end point at which f is exactly zero (x1, else x2).
C5_ZeroBudgetReturnsNaNOrZeroEndPoint ==
    (pc = "done" /\ mth.max_steps = 0)
        => \/ isnan(ret)
           \/ /\ mth.method = "dichotomy"
              /\ iters = 0 /\ reports = <<>>
              /\ IF DEq(F(m_expr, ord, mth.x1), Zero) THEN ret = mth.x1
                 ELSE DEq(F(m_expr, ord, mth.x2), Zero) /\ ret = mth.x2
\* simple iteration got to its loop with a budget of zero and gave up there
C5_Witness ==
    /\ pc = "done"
    /\ mth.max_steps = 0
    /\ mth.method = "simple_iterations"
    /\ Len(reports) = 1
    /\ isnan(ret)

LoopReports == SelectSeq(reports, LAMBDA r : r.at = "loop")
\* C6: with max_steps = N a method makes at most N passes of its loop (the
\* pass after the N-th returns), and the steps it reports in the loop are
\* 1, 2, ..., k with k <= N.
C6_BoundedPasses ==
    /\ iters <= mth.max_steps
    /\ Len(LoopReports) <= iters
    /\ \A i \in 1..Len(LoopReports) : LoopReports[i].step = i
    /\ (pc = "loop" => loc.step = iters)
\* a method that used up a budget of at least two steps
C6_Witness ==
    /\ pc = "done"
    /\ iters = mth.max_steps
    /\ iters >= 2
    /\ Len(LoopReports) = iters
    /\ isnan(ret)

\* C9: dichotomy is at the head of its loop only with sign(f(x1)) = +1 and
\* sign(f(x2)) = -1; end points not of opposite sign never reach the loop.
C9_BracketAtLoopHead ==
    (pc = "loop" /\ mth.method = "dichotomy")
        => /\ sign(F(m_expr, ord, loc.x1)) = One
           /\ sign(F(m_expr, ord, loc.x2)) = DNeg(One)

\* C10: in every report, y is the function value at the reported x.
C10_ReportedValueIsAtReportedPoint ==
    \A i \in 1..Len(reports) : reports[i].y = F(m_expr, ord, reports[i].x)

==========================================================================
